---- MODULE Spec2Model ----
(***************************************************************************)
(* LocalContentGenerator (packages/core/src/core/localContentGenerator.ts) *)
(* as a state machine: the adapter's configuration, the calls in flight on *)
(* one adapter instance (generateContent and generateContentStream), and   *)
(* the HTTP server each call talks to.                                     *)
(*                                                                         *)
(* A text is a sequence of characters, each a string.  The response body   *)
(* of a streamed call is a sequence of bytes: C3 A9 encodes the one        *)
(* two-byte character, written e', and every other byte is the ASCII       *)
(* character it encodes.                                                   *)
(***************************************************************************)
EXTENDS Integers, Sequences, FiniteSets, TLC

VARIABLES
  config,   \* this.config, set by the constructor
  call,     \* per call: the locals of the running method or generator
  server    \* per call: the HTTP server's side of that call's request

vars == <<config, call, server>>

(***************************************************************************)
(* Bounds of the model.                                                    *)
(***************************************************************************)
NumCalls == 2      \* calls in flight on one adapter instance
MaxLines == 3      \* lines of a streamed body (StreamSpec)
MaxRead == 3       \* bytes one reader.read() delivers at most
MaxContents == 2   \* entries of request.contents (PromptSpec)
MaxParts == 2      \* parts of one content entry (PromptSpec)
MaxCount == 2      \* largest prompt_eval_count / eval_count (BufferedSpec)

Calls == 1..NumCalls

(***************************************************************************)
(* Strings.                                                                *)
(***************************************************************************)
NL == "\n"

IsSpace(ch) == ch \in {" ", NL}

RECURSIVE trimStart(_)
trimStart(s) ==
  IF s = <<>> THEN <<>>
  ELSE IF IsSpace(Head(s)) THEN trimStart(Tail(s)) ELSE s

RECURSIVE trimEnd(_)
trimEnd(s) ==
  IF s = <<>> THEN <<>>
  ELSE IF IsSpace(s[Len(s)]) THEN trimEnd(SubSeq(s, 1, Len(s) - 1)) ELSE s

\* String.prototype.trim
trim(s) == trimEnd(trimStart(s))

\* s.split('\n'): always at least one segment
RECURSIVE split(_)
split(s) ==
  IF \E i \in 1..Len(s) : s[i] = NL
  THEN LET i == CHOOSE k \in 1..Len(s) :
                  s[k] = NL /\ \A j \in 1..(k - 1) : s[j] # NL
       IN <<SubSeq(s, 1, i - 1)>> \o split(SubSeq(s, i + 1, Len(s)))
  ELSE <<s>>

(***************************************************************************)
(* Requests (GenerateContentParameters.contents, a ContentListUnion).      *)
(***************************************************************************)
TextPart(t) == [keys |-> {"text"}, text |-> t]
ImagePart == [keys |-> {"inlineData"}, text |-> <<>>]

ContentEntry(ps) ==
  [type |-> "object", keys |-> {"role", "parts"}, defined |-> TRUE, parts |-> ps]
\* a Content whose parts field is present but undefined
ContentNoParts ==
  [type |-> "object", keys |-> {"role", "parts"}, defined |-> FALSE, parts |-> <<>>]
\* a bare Part given where a Content is expected: it has no 'parts' key
BarePart(t) ==
  [type |-> "object", keys |-> {"text"}, defined |-> FALSE, parts |-> <<TextPart(t)>>]
StringItem ==
  [type |-> "string", keys |-> {}, defined |-> FALSE, parts |-> <<>>]

ArrayContents(items) == [isArray |-> TRUE, items |-> items]
SingleContents(item) == [isArray |-> FALSE, items |-> <<item>>]

IsContent(c) == c.type = "object" /\ "parts" \in c.keys

RECURSIVE PartsPrompt(_, _)
\* the inner loop of convertToOllamaPrompt over content.parts
PartsPrompt(parts, prompt) ==
  IF parts = <<>> THEN prompt
  ELSE LET part == Head(parts) IN
       PartsPrompt(Tail(parts),
                   IF "text" \in part.keys /\ part.text # <<>>
                   THEN prompt \o part.text \o <<NL>> ELSE prompt)

RECURSIVE ContentsPrompt(_, _)
\* the outer loop of convertToOllamaPrompt over contents
ContentsPrompt(contents, prompt) ==
  IF contents = <<>> THEN prompt
  ELSE LET content == Head(contents) IN
       ContentsPrompt(Tail(contents),
                      IF content.defined
                      THEN PartsPrompt(content.parts, prompt) ELSE prompt)

\* faulty variant: the final trim() forgotten
convertToOllamaPromptNoTrim(request) ==
  LET contents ==
        IF request.contents.isArray
        THEN SelectSeq(request.contents.items, IsContent)
        ELSE IF IsContent(request.contents.items[1])
             THEN request.contents.items ELSE <<>>
  IN ContentsPrompt(contents, <<>>)

convertToOllamaPrompt(request) ==
  LET contents ==
        IF request.contents.isArray
        THEN SelectSeq(request.contents.items, IsContent)
        ELSE IF IsContent(request.contents.items[1])
             THEN request.contents.items ELSE <<>>
  IN trim(ContentsPrompt(contents, <<>>))

(***************************************************************************)
(* Provider responses (the parsed JSON, typed any) and their conversion.   *)
(***************************************************************************)
OllamaData(keys, response, done, pec, ec) ==
  [null |-> FALSE, keys |-> keys,
   response |-> IF "response" \in keys THEN response ELSE <<>>,
   done |-> IF "done" \in keys THEN done ELSE FALSE,
   prompt_eval_count |-> IF "prompt_eval_count" \in keys THEN pec ELSE 0,
   eval_count |-> IF "eval_count" \in keys THEN ec ELSE 0]

\* the JSON value null
NullData ==
  [null |-> TRUE, keys |-> {}, response |-> <<>>, done |-> FALSE,
   prompt_eval_count |-> 0, eval_count |-> 0]

\* data.response, truthy
HasResponse(data) == "response" \in data.keys /\ data.response # <<>>
\* data.response || ''
ResponseOrEmpty(data) == IF HasResponse(data) THEN data.response ELSE <<>>
\* data.done, truthy
IsDone(data) == "done" \in data.keys /\ data.done
\* data.prompt_eval_count || 0
PromptEvalCountOrZero(data) ==
  IF "prompt_eval_count" \in data.keys /\ data.prompt_eval_count # 0
  THEN data.prompt_eval_count ELSE 0
\* data.eval_count || 0
EvalCountOrZero(data) ==
  IF "eval_count" \in data.keys /\ data.eval_count # 0 THEN data.eval_count ELSE 0

\* faulty variant: the finish reason of the streamed conversion used for the buffered one
convertFromOllamaResponseUnset(data) ==
  [candidates |->
     <<[content |-> [parts |-> <<[text |-> ResponseOrEmpty(data)]>>, role |-> "model"],
        finishReason |-> IF IsDone(data) THEN "STOP" ELSE "undefined",
        index |-> 0]>>,
   usageMetadata |->
     [promptTokenCount |-> PromptEvalCountOrZero(data),
      candidatesTokenCount |-> EvalCountOrZero(data),
      totalTokenCount |-> PromptEvalCountOrZero(data) + EvalCountOrZero(data)]]

convertFromOllamaResponse(data) ==
  [candidates |->
     <<[content |-> [parts |-> <<[text |-> ResponseOrEmpty(data)]>>, role |-> "model"],
        finishReason |-> IF IsDone(data) THEN "STOP" ELSE "MAX_TOKENS",
        index |-> 0]>>,
   usageMetadata |->
     [promptTokenCount |-> PromptEvalCountOrZero(data),
      candidatesTokenCount |-> EvalCountOrZero(data),
      totalTokenCount |-> PromptEvalCountOrZero(data) + EvalCountOrZero(data)]]

convertFromOllamaStreamResponse(data) ==
  [candidates |->
     <<[content |-> [parts |-> <<[text |-> ResponseOrEmpty(data)]>>, role |-> "model"],
        finishReason |-> IF IsDone(data) THEN "STOP" ELSE "undefined",
        index |-> 0]>>]

(***************************************************************************)
(* The streamed body.  A line  { letters }  is the JSON object             *)
(* {"response": letters, "done": false},  { letters ! }  the same with     *)
(* "done": true, the line  n  the JSON value null; whitespace around a     *)
(* value is allowed, and every other line is not JSON.                     *)
(***************************************************************************)
Letters == {"a", "b", "e'"}

\* JSON.parse(line): ok is FALSE where it throws SyntaxError
JSONparse(line) ==
  LET t == trim(line)
      n == Len(t)
      bang == n >= 3 /\ t[n - 1] = "!"
      last == IF bang THEN n - 2 ELSE n - 1
  IN IF t = <<"n">> THEN [ok |-> TRUE, data |-> NullData]
     ELSE IF n >= 2 /\ t[1] = "{" /\ t[n] = "}"
             /\ \A i \in 2..last : t[i] \in Letters
          THEN [ok |-> TRUE,
                data |-> OllamaData({"response", "done"},
                                    SubSeq(t, 2, last), bang, 0, 0)]
          ELSE [ok |-> FALSE, data |-> NullData]

\* TextDecoder.decode(value, {stream: true}) over the bytes of the model: C3 A9
\* is the two-byte character e', a lead byte at the end of a read is held back
\* for the next one, and a byte that cannot be decoded gives U+FFFD
RECURSIVE decode(_, _, _)
decode(held, bytes, text) ==
  IF bytes = <<>> THEN [text |-> text, held |-> held]
  ELSE LET b == Head(bytes) IN
       IF held
       THEN IF b = "A9" THEN decode(FALSE, Tail(bytes), text \o <<"e'">>)
            ELSE decode(FALSE, bytes, text \o <<"FFFD">>)
       ELSE IF b = "C3" THEN decode(TRUE, Tail(bytes), text)
            ELSE IF b = "A9" THEN decode(FALSE, Tail(bytes), text \o <<"FFFD">>)
            ELSE decode(FALSE, Tail(bytes), text \o <<b>>)

\* the loop over the lines, run up to its next yield: the chunk it yields (none
\* when the lines run out first) and the lines left.  Reading data.response of
\* null throws TypeError inside the try, so a null line is skipped like a line
\* that is not JSON.
RECURSIVE NextYield(_)
NextYield(lines) ==
  IF lines = <<>> THEN [rest |-> <<>>, chunk |-> <<>>]
  ELSE LET line == Head(lines)
           p == JSONparse(line)
       IN IF trim(line) # <<>> /\ p.ok /\ ~p.data.null /\ HasResponse(p.data)
          THEN [rest |-> Tail(lines),
                chunk |-> <<convertFromOllamaStreamResponse(p.data)>>]
          ELSE NextYield(Tail(lines))

(***************************************************************************)
(* Errors: a thrown error has a name and a message; a message is the       *)
(* sequence of its fixed text and the values interpolated into it.         *)
(***************************************************************************)
Thrown(name, message) == [name |-> name, message |-> message]

UnsupportedMessage(cfg) == <<"Unsupported local model provider: ", cfg.provider>>
ApiErrorMessage(status, statusText) ==
  <<"Ollama API error: ", ToString(status), statusText>>
NoBodyMessage == <<"No response body from Ollama">>
TimeoutMessage(cfg) ==
  <<"Local model endpoint timeout after 60s: ", cfg.endpoint, cfg.provider, cfg.model>>
RequestFailedMessage(message) == <<"Local model request failed: ">> \o message

\* the kind of a failure, as the caller can tell it: by the message's fixed text
ErrorKind(message) ==
  CASE message = <<>> -> "none"
    [] Head(message) = "Unsupported local model provider: " -> "UnsupportedProvider"
    [] Head(message) = "Local model endpoint timeout after 60s: " -> "Timeout"
    [] Head(message) = "Ollama API error: " -> "UpstreamError"
    [] Head(message) = "Local model request failed: " -> "RequestFailed"
    [] OTHER -> "other"

(***************************************************************************)
(* The state of one call and of the server's side of it.                   *)
(***************************************************************************)
Providers == {"ollama", "vllm", "custom"}

Config(provider) ==
  [endpoint |-> "http://localhost:11434", model |-> "gemma3:27b", provider |-> provider]

NoRequest == [contents |-> ArrayContents(<<>>)]

\* pc: idle, suspendedStart (the generator object exists, its body has not
\* run), fetch / json / read (awaiting fetch(), response.json(),
\* reader.read()), yield (suspended at the yield), and the ends: done (returned
\* or ran to its end), closed (the consumer's return()), failed (threw).
NewCall ==
  [pc |-> "idle", method |-> "none", request |-> NoRequest,
   sent |-> <<>>,            \* the bodies of the fetch() calls made
   controller |-> "none",    \* none, live, aborted
   timeoutId |-> "none",     \* none, armed, cleared, fired
   status |-> 0,             \* response.status, 0 before the response
   reader |-> "none",        \* none, held, released
   releases |-> 0,           \* calls of reader.releaseLock()
   held |-> FALSE,           \* the decoder holds a lead byte
   buffer |-> <<>>,
   lines |-> <<>>,           \* the lines the for loop has yet to visit
   out |-> <<>>,             \* the chunks yielded to the consumer
   data |-> <<>>,            \* the value response.json() gave, if any
   result |-> <<>>,          \* the response returned, if any
   error |-> <<>>]           \* the message of the error thrown, if any

NewServer == [body |-> <<>>, pos |-> 0, stalled |-> FALSE]

Waiting == {"fetch", "json", "read"}
Ended == {"done", "closed", "failed"}

Statuses == {200, 404, 500}
StatusText(status) ==
  CASE status = 200 -> "OK"
    [] status = 404 -> "Not Found"
    [] OTHER -> "Internal Server Error"
\* response.ok
Ok(status) == status >= 200 /\ status <= 299

\* faulty variant: the test for the one implemented provider lets vllm through
IsOllamaOrVllm(provider) == provider # "custom"
\* this.config.provider === 'ollama'
IsOllama(provider) == provider = "ollama"

clearTimeout(t) == IF t = "armed" THEN "cleared" ELSE t

\* faulty variant: the catch block without its clearTimeout
catchOllamaNoClear(cr, cfg, error) ==
  [cr EXCEPT !.pc = "failed",
             !.error = IF error.name = "AbortError" THEN TimeoutMessage(cfg)
                       ELSE RequestFailedMessage(error.message)]
\* the catch block of generateContentOllama
catchOllama(cr, cfg, error) ==
  [cr EXCEPT !.timeoutId = clearTimeout(@),
             !.pc = "failed",
             !.error = IF error.name = "AbortError" THEN TimeoutMessage(cfg)
                       ELSE RequestFailedMessage(error.message)]

\* the catch block of generateContentStreamOllama
catchStreamOllama(cr, cfg, error) ==
  [cr EXCEPT !.timeoutId = clearTimeout(@),
             !.pc = "failed",
             !.error = IF error.name = "AbortError" THEN TimeoutMessage(cfg)
                       ELSE RequestFailedMessage(error.message)]

Catch(cr, cfg, error) ==
  IF cr.method = "generateContent" THEN catchOllama(cr, cfg, error)
  ELSE catchStreamOllama(cr, cfg, error)

\* the finally block around the read loop
releaseLock(cr) == [cr EXCEPT !.reader = "released", !.releases = @ + 1]

\* from the method's first line to its await fetch(...)
StartOllama(cr, cfg, stream) ==
  [cr EXCEPT !.controller = "live",
             !.timeoutId = "armed",
             !.sent = Append(@, [url |-> <<cfg.endpoint, "/api/generate">>,
                                 model |-> cfg.model,
                                 prompt |-> convertToOllamaPrompt(cr.request),
                                 stream |-> stream]),
             !.pc = "fetch"]

\* generateContentOllama from the resolution of fetch() to await response.json()
AfterFetch(cr, cfg, status) ==
  LET c1 == [cr EXCEPT !.timeoutId = clearTimeout(@), !.status = status] IN
  IF ~Ok(status)
  THEN catchOllama(c1, cfg, Thrown("Error", ApiErrorMessage(status, StatusText(status))))
  ELSE [c1 EXCEPT !.pc = "json"]

\* generateContentStreamOllama from the resolution of fetch() to the first
\* await reader.read()
AfterFetchStream(cr, cfg, status, hasBody) ==
  LET c1 == [cr EXCEPT !.timeoutId = clearTimeout(@), !.status = status] IN
  IF ~Ok(status)
  THEN catchStreamOllama(c1, cfg,
                         Thrown("Error", ApiErrorMessage(status, StatusText(status))))
  ELSE IF ~hasBody
       THEN catchStreamOllama(c1, cfg, Thrown("Error", NoBodyMessage))
       ELSE [c1 EXCEPT !.reader = "held", !.buffer = <<>>, !.pc = "read"]

\* the for loop, from where it stands to its next yield or to the next
\* await reader.read()
ResumeLoop(cr) ==
  LET y == NextYield(cr.lines) IN
  IF y.chunk # <<>>
  THEN [cr EXCEPT !.out = @ \o y.chunk, !.lines = y.rest, !.pc = "yield"]
  ELSE [cr EXCEPT !.lines = <<>>, !.pc = "read"]

\* one turn of the while loop on a read that delivered value
OnRead(cr, value) ==
  LET d == decode(cr.held, value, <<>>)
      lines == split(cr.buffer \o d.text)
  IN ResumeLoop([cr EXCEPT !.held = d.held,
                           !.buffer = lines[Len(lines)],
                           !.lines = SubSeq(lines, 1, Len(lines) - 1)])

\* faulty variant: the reader released after the loop only, not in a finally block
OnReturnNoFinally(cr) == [cr EXCEPT !.pc = "closed"]
\* the consumer's return() at the yield: the finally block runs, the catch
\* block does not
OnReturn(cr) == [releaseLock(cr) EXCEPT !.pc = "closed"]

\* faulty variant: one AbortController kept on the instance and used by every call
abortShared(calls, c) ==
  [d \in DOMAIN calls |->
     [calls[d] EXCEPT !.controller = IF @ = "none" THEN @ ELSE "aborted"]]
\* controller.abort() on the controller the call created for itself
abort(calls, c) == [calls EXCEPT ![c].controller = "aborted"]

(***************************************************************************)
(* The operations.                                                         *)
(***************************************************************************)
Set(c, cr) == call' = [call EXCEPT ![c] = cr]

\* generateContent(request), for a request of the set given
GenerateContent(c, requests) ==
  /\ call[c].pc = "idle"
  /\ \E request \in requests :
       LET cr == [call[c] EXCEPT !.method = "generateContent",
                                 !.request = request] IN
       IF IsOllama(config.provider)
       THEN Set(c, StartOllama(cr, config, FALSE))
       ELSE Set(c, [cr EXCEPT !.pc = "failed", !.error = UnsupportedMessage(config)])
  /\ UNCHANGED <<config, server>>

\* generateContentStream(request), for a request of the set given; an async
\* generator function runs nothing until its first next()
GenerateContentStream(c, requests) ==
  /\ call[c].pc = "idle"
  /\ \E request \in requests :
       LET cr == [call[c] EXCEPT !.method = "generateContentStream",
                                 !.request = request] IN
       IF IsOllama(config.provider)
       THEN Set(c, [cr EXCEPT !.pc = "suspendedStart"])
       ELSE Set(c, [cr EXCEPT !.pc = "failed", !.error = UnsupportedMessage(config)])
  /\ UNCHANGED <<config, server>>

\* the consumer's first next()
GenFirstNext(c) ==
  /\ call[c].pc = "suspendedStart"
  /\ Set(c, StartOllama(call[c], config, TRUE))
  /\ UNCHANGED <<config, server>>

\* the consumer's return() before any next()
GenReturnUnstarted(c) ==
  /\ call[c].pc = "suspendedStart"
  /\ Set(c, [call[c] EXCEPT !.pc = "closed"])
  /\ UNCHANGED <<config, server>>

\* the timer's callback: controller.abort()
TimerFire(c) ==
  /\ call[c].timeoutId = "armed"
  /\ call' = abort([call EXCEPT ![c].timeoutId = "fired"], c)
  /\ UNCHANGED <<config, server>>

\* the pending fetch() or read rejects with AbortError
AbortReject(c) ==
  /\ call[c].pc \in Waiting
  /\ call[c].controller = "aborted"
  /\ Set(c, Catch(IF call[c].pc = "read" THEN releaseLock(call[c]) ELSE call[c],
                  config, Thrown("AbortError", <<"This operation was aborted">>)))
  /\ UNCHANGED <<config, server>>

\* the server stops answering, for good
ServerStall(c) ==
  /\ call[c].pc \in Waiting
  /\ ~server[c].stalled
  /\ server' = [server EXCEPT ![c].stalled = TRUE]
  /\ UNCHANGED <<config, call>>

\* the response's status line and headers arrive: a status of the set given
\* and, for a stream, no body or a body of the set given
FetchResolve(c, statuses, bodies) ==
  /\ call[c].pc = "fetch"
  /\ call[c].controller # "aborted"
  /\ ~server[c].stalled
  /\ \E status \in statuses :
       IF call[c].method = "generateContent"
       THEN /\ Set(c, AfterFetch(call[c], config, status))
            /\ UNCHANGED server
       ELSE \E hasBody \in BOOLEAN :
              /\ Set(c, AfterFetchStream(call[c], config, status, hasBody))
              /\ IF Ok(status) /\ hasBody
                 THEN \E body \in bodies : server' = [server EXCEPT ![c].body = body]
                 ELSE UNCHANGED server
  /\ UNCHANGED config

\* the connection fails before the response
FetchReject(c) ==
  /\ call[c].pc = "fetch"
  /\ call[c].controller # "aborted"
  /\ ~server[c].stalled
  /\ Set(c, Catch(call[c], config, Thrown("TypeError", <<"fetch failed">>)))
  /\ UNCHANGED <<config, server>>

\* response.json() resolves with a value of the set given;
\* convertFromOllamaResponse(null) throws TypeError
JsonResolve(c, values) ==
  /\ call[c].pc = "json"
  /\ ~server[c].stalled
  /\ \E data \in values :
       IF data.null
       THEN Set(c, catchOllama([call[c] EXCEPT !.data = <<data>>], config,
                   Thrown("TypeError", <<"Cannot read properties of null">>)))
       ELSE Set(c, [call[c] EXCEPT !.pc = "done",
                                   !.data = <<data>>,
                                   !.result = <<convertFromOllamaResponse(data)>>])
  /\ UNCHANGED <<config, server>>

\* response.json() rejects: the body is not JSON, or the connection broke
JsonReject(c) ==
  /\ call[c].pc = "json"
  /\ ~server[c].stalled
  /\ Set(c, catchOllama(call[c], config, Thrown("SyntaxError", <<"Unexpected token">>)))
  /\ UNCHANGED <<config, server>>

\* reader.read() resolves with the next bytes of the body, MaxRead at most
ReadChunk(c) ==
  /\ call[c].pc = "read"
  /\ ~server[c].stalled
  /\ \E n \in 1..MaxRead :
       /\ server[c].pos + n <= Len(server[c].body)
       /\ Set(c, OnRead(call[c],
                        SubSeq(server[c].body, server[c].pos + 1, server[c].pos + n)))
       /\ server' = [server EXCEPT ![c].pos = @ + n]
  /\ UNCHANGED config

\* reader.read() resolves with done: break, the finally block, the end
ReadDone(c) ==
  /\ call[c].pc = "read"
  /\ ~server[c].stalled
  /\ server[c].pos = Len(server[c].body)
  /\ Set(c, [releaseLock(call[c]) EXCEPT !.pc = "done"])
  /\ UNCHANGED <<config, server>>

\* reader.read() rejects: the finally block, then the catch block
ReadError(c) ==
  /\ call[c].pc = "read"
  /\ ~server[c].stalled
  /\ Set(c, catchStreamOllama(releaseLock(call[c]), config,
                              Thrown("TypeError", <<"terminated">>)))
  /\ UNCHANGED <<config, server>>

\* the consumer's next() at the yield
GenNext(c) ==
  /\ call[c].pc = "yield"
  /\ Set(c, ResumeLoop(call[c]))
  /\ UNCHANGED <<config, server>>

\* the consumer's return() at the yield (a break out of for await)
GenReturn(c) ==
  /\ call[c].pc = "yield"
  /\ Set(c, OnReturn(call[c]))
  /\ UNCHANGED <<config, server>>

(***************************************************************************)
(* Spec: NumCalls calls on one adapter instance, in any interleaving.      *)
(***************************************************************************)
Hi == <<"h", "i">>
SmallRequests ==
  {[contents |-> ArrayContents(<<ContentEntry(<<TextPart(Hi), TextPart(<<"!">>)>>)>>)]}
SmallBodies == {<<"{", "a", "}", NL, "{", "b", "!", "}", NL>>}
SmallData ==
  {OllamaData({"response", "done", "prompt_eval_count", "eval_count"}, Hi, TRUE, 3, 2),
   NullData}

Init ==
  /\ config \in {Config(p) : p \in Providers}
  /\ call = [c \in Calls |-> NewCall]
  /\ server = [c \in Calls |-> NewServer]

Next ==
  \E c \in Calls :
    \/ GenerateContent(c, SmallRequests)
    \/ GenerateContentStream(c, SmallRequests)
    \/ GenFirstNext(c)
    \/ GenReturnUnstarted(c)
    \/ TimerFire(c)
    \/ AbortReject(c)
    \/ ServerStall(c)
    \/ FetchResolve(c, {200, 500}, SmallBodies)
    \/ FetchReject(c)
    \/ JsonResolve(c, SmallData)
    \/ JsonReject(c)
    \/ ReadChunk(c)
    \/ ReadDone(c)
    \/ ReadError(c)
    \/ GenNext(c)
    \/ GenReturn(c)

Spec == Init /\ [][Next]_vars

\* the timer runs out whenever it is armed, and an aborted request rejects;
\* nothing obliges the server to answer
FairSpec ==
  /\ Spec
  /\ \A c \in Calls : WF_vars(TimerFire(c)) /\ WF_vars(AbortReject(c))

(***************************************************************************)
(* Properties of Spec.                                                     *)
(***************************************************************************)
\* C1: a call whose server has stopped answering while the call awaits it (the
\* response, the buffered body, or the next read of the stream) eventually
\* fails with a Timeout error; it does not wait forever.
C1_StallTimesOut ==
  \A c \in Calls :
    (server[c].stalled /\ call[c].pc \in Waiting)
      ~> (call[c].pc = "failed" /\ ErrorKind(call[c].error) = "Timeout")

\* C2: the reader, once acquired, is released exactly once by the time the
\* generator has ended, on whichever path it ended; it is never released
\* while the generator still runs and never released twice.
C2_ReaderReleasedOnce ==
  \A c \in Calls :
    /\ call[c].reader = "none" => call[c].releases = 0
    /\ call[c].reader = "held" => call[c].releases = 0 /\ call[c].pc \notin Ended
    /\ call[c].reader = "released" => call[c].releases = 1 /\ call[c].pc \in Ended

\* one stream closed by the consumer after a chunk, another ended by a read error
C2_Witness ==
  \E c, d \in Calls :
    /\ call[c].pc = "closed" /\ Len(call[c].out) >= 1 /\ call[c].releases = 1
    /\ call[d].pc = "failed" /\ call[d].reader = "released"

\* C5: a failure is classified by its cause: Timeout for the timer's abort,
\* UpstreamError for a non-2xx status, RequestFailed for anything else.
C5_ErrorClassification ==
  \A c \in Calls :
    (call[c].pc = "failed" /\ IsOllama(config.provider)) =>
      ErrorKind(call[c].error) =
        IF call[c].controller = "aborted" THEN "Timeout"
        ELSE IF call[c].status # 0 /\ ~Ok(call[c].status) THEN "UpstreamError"
        ELSE "RequestFailed"

\* C6: with a provider other than ollama no request is issued and no timer is
\* started, and a call that was made has failed with UnsupportedProvider
\* naming the configured provider.
C6_UnsupportedProvider ==
  config.provider # "ollama" =>
    \A c \in Calls :
      /\ call[c].sent = <<>>
      /\ call[c].timeoutId = "none"
      /\ call[c].controller = "none"
      /\ call[c].pc \in {"idle", "failed"}
      /\ call[c].pc = "failed" =>
           /\ ErrorKind(call[c].error) = "UnsupportedProvider"
           /\ call[c].error[2] = config.provider

C6_Witness ==
  /\ config.provider = "vllm"
  /\ \E c, d \in Calls :
       /\ call[c].method = "generateContent" /\ call[c].pc = "failed"
       /\ call[d].method = "generateContentStream" /\ call[d].pc = "failed"

\* C7: no call that has ended has its timer still armed.
C7_TimerCleared ==
  \A c \in Calls : call[c].pc \in Ended => call[c].timeoutId # "armed"

\* a stream closed early by the consumer and a call ended by a transport error
C7_Witness ==
  \E c, d \in Calls :
    /\ call[c].pc = "closed" /\ call[c].timeoutId = "cleared"
    /\ call[d].pc = "failed" /\ call[d].status = 0 /\ call[d].timeoutId = "cleared"

\* C10: no step writes the configuration, every step changes the state of at
\* most one call, and a call is aborted by its own timer only.
C10_Independent ==
  [][/\ config' = config
     /\ \A c, d \in Calls :
          (c # d /\ <<call[c], server[c]>>' # <<call[c], server[c]>>)
            => <<call[d], server[d]>>' = <<call[d], server[d]>>
     /\ \A c \in Calls :
          call'[c].controller = "aborted" => call'[c].timeoutId = "fired"]_vars

\* one call aborted by its timer while another is in flight and unaffected
C10_Witness ==
  \E c, d \in Calls :
    /\ c # d
    /\ call[c].pc = "failed" /\ ErrorKind(call[c].error) = "Timeout"
    /\ call[d].pc \in {"json", "read", "yield"} /\ call[d].controller = "live"

(***************************************************************************)
(* BufferedSpec: one generateContent call, over every shape of the         *)
(* provider's JSON.                                                        *)
(***************************************************************************)
DataKeys == {"response", "done", "prompt_eval_count", "eval_count"}
RichData ==
  {OllamaData(keys, response, done, pec, ec) :
     keys \in SUBSET DataKeys, response \in {<<>>, Hi}, done \in BOOLEAN,
     pec \in 0..MaxCount, ec \in 0..MaxCount}
  \cup {NullData}

BufferedNext ==
  \/ GenerateContent(1, SmallRequests)
  \/ TimerFire(1)
  \/ AbortReject(1)
  \/ ServerStall(1)
  \/ FetchResolve(1, Statuses, {})
  \/ FetchReject(1)
  \/ JsonResolve(1, RichData)
  \/ JsonReject(1)

BufferedSpec == Init /\ [][BufferedNext]_vars

\* C8: the response generateContent returns has exactly one candidate, with
\* role "model", index 0 and one text part equal to the response field (empty
\* when absent); its finish reason is STOP iff done is true and MAX_TOKENS
\* otherwise; the token counts are prompt_eval_count and eval_count (0 when
\* absent) and their sum.
C8_BufferedResponse ==
  \A c \in Calls :
    (call[c].method = "generateContent" /\ call[c].pc = "done") =>
      /\ Len(call[c].data) = 1 /\ Len(call[c].result) = 1
      /\ LET d == call[c].data[1]
             r == call[c].result[1]
             pec == IF "prompt_eval_count" \in d.keys THEN d.prompt_eval_count ELSE 0
             ec == IF "eval_count" \in d.keys THEN d.eval_count ELSE 0
         IN /\ Len(r.candidates) = 1
            /\ r.candidates[1].content.role = "model"
            /\ r.candidates[1].index = 0
            /\ Len(r.candidates[1].content.parts) = 1
            /\ r.candidates[1].content.parts[1].text =
                 (IF "response" \in d.keys THEN d.response ELSE <<>>)
            /\ r.candidates[1].finishReason \in {"STOP", "MAX_TOKENS"}
            /\ r.candidates[1].finishReason = "STOP" <=> ("done" \in d.keys /\ d.done)
            /\ r.usageMetadata.promptTokenCount = pec
            /\ r.usageMetadata.candidatesTokenCount = ec
            /\ r.usageMetadata.totalTokenCount = pec + ec

\* {response: "hi", done: false} returned as MAX_TOKENS with counts of 0
C8_Witness ==
  /\ call[1].pc = "done"
  /\ call[1].data = <<OllamaData({"response", "done"}, Hi, FALSE, 0, 0)>>
  /\ call[1].result[1].candidates[1].finishReason = "MAX_TOKENS"
  /\ call[1].result[1].usageMetadata.totalTokenCount = 0

(***************************************************************************)
(* StreamSpec: one generateContentStream call, over the bodies of up to    *)
(* MaxLines lines, the last one with or without its newline, delivered in  *)
(* reads of every size up to MaxRead.                                      *)
(***************************************************************************)
LineSet ==
  {<<"{", "a", "}">>,            \* {"response":"a","done":false}
   <<"{", "b", "!", "}">>,       \* {"response":"b","done":true}
   <<"{", "C3", "A9", "}">>,     \* a response of the two-byte character
   <<"{", "}">>,                 \* {"response":"","done":false}
   <<"n">>,                      \* null
   <<"x", "{">>,                 \* not JSON
   <<" ">>,                      \* a blank line
   <<>>}                         \* an empty line

RECURSIVE JoinLines(_)
JoinLines(ls) ==
  IF ls = <<>> THEN <<>> ELSE Head(ls) \o <<NL>> \o JoinLines(Tail(ls))

LineSeqs == UNION {[1..k -> LineSet] : k \in 0..MaxLines}

RichBodies ==
  {JoinLines(ls) : ls \in LineSeqs}
  \cup {SubSeq(JoinLines(ls), 1, Len(JoinLines(ls)) - 1) : ls \in LineSeqs \ {<<>>}}

StreamNext ==
  \/ GenerateContentStream(1, SmallRequests)
  \/ GenFirstNext(1)
  \/ GenReturnUnstarted(1)
  \/ TimerFire(1)
  \/ AbortReject(1)
  \/ FetchResolve(1, Statuses, RichBodies)
  \/ FetchReject(1)
  \/ ReadChunk(1)
  \/ ReadDone(1)
  \/ ReadError(1)
  \/ GenNext(1)
  \/ GenReturn(1)

StreamSpec == Init /\ [][StreamNext]_vars

\* the text of a whole body
BodyText(body) == decode(FALSE, body, <<>>).text

\* whether a line parses as a JSON object carrying a non-empty response
CarriesResponse(line) ==
  JSONparse(line).ok /\ ~JSONparse(line).data.null
  /\ JSONparse(line).data.response # <<>>

\* one chunk per line carrying a non-empty response, in line order
RECURSIVE ChunksOfLines(_)
ChunksOfLines(ls) ==
  IF ls = <<>> THEN <<>>
  ELSE (IF CarriesResponse(Head(ls))
        THEN <<[text |-> JSONparse(Head(ls)).data.response,
                finishReason |-> IF JSONparse(Head(ls)).data.done
                                 THEN "STOP" ELSE "undefined"]>>
        ELSE <<>>) \o ChunksOfLines(Tail(ls))

\* the text and finish reason of each chunk yielded
Yielded(out) ==
  [i \in 1..Len(out) |->
     [text |-> out[i].candidates[1].content.parts[1].text,
      finishReason |-> out[i].candidates[1].finishReason]]

\* C3: a stream read to its end has yielded exactly one chunk for each line
\* of the body carrying a non-empty response, in order, whether or not the
\* last line ends in a newline.
C3_ChunkPerLine ==
  \A c \in Calls :
    (call[c].method = "generateContentStream" /\ call[c].pc = "done") =>
      Yielded(call[c].out) = ChunksOfLines(split(BodyText(server[c].body)))

\* the lines of a text that a newline ends
TerminatedLines(text) == SubSeq(split(text), 1, Len(split(text)) - 1)

HasMalformedLine(text) ==
  \E i \in 1..Len(TerminatedLines(text)) :
    /\ trim(TerminatedLines(text)[i]) # <<>>
    /\ ~JSONparse(TerminatedLines(text)[i]).ok

\* C4: when the body holds a complete line that is not JSON, the stream still
\* runs to its end without an error, and every well-formed line carrying a
\* response, before or after that line, has yielded its chunk.
C4_MalformedLineSkipped ==
  \A c \in Calls :
    (/\ call[c].method = "generateContentStream"
     /\ call[c].pc = "done"
     /\ HasMalformedLine(BodyText(server[c].body))) =>
      /\ call[c].error = <<>>
      /\ Yielded(call[c].out) = ChunksOfLines(split(BodyText(server[c].body)))

\* what the read loop does yield: the chunks of the lines a newline ends
StreamYieldsTerminatedLines ==
  \A c \in Calls :
    (call[c].method = "generateContentStream" /\ call[c].pc = "done") =>
      /\ call[c].error = <<>>
      /\ Yielded(call[c].out) = ChunksOfLines(TerminatedLines(BodyText(server[c].body)))

(***************************************************************************)
(* PromptSpec: one call of either method, over the requests of up to       *)
(* MaxContents content entries of up to MaxParts text parts each, and over *)
(* the other shapes a ContentListUnion takes.                              *)
(***************************************************************************)
PromptTexts == {<<>>, <<" ", "a">>, <<"b", NL>>}

PartSeqs == UNION {[1..k -> {TextPart(t) : t \in PromptTexts}] : k \in 0..MaxParts}
Entries == {ContentEntry(ps) : ps \in PartSeqs}
OddItems ==
  {StringItem, BarePart(<<"a">>), ContentNoParts,
   ContentEntry(<<ImagePart>>),
   ContentEntry(<<TextPart(<<"a">>), ImagePart, TextPart(<<>>), TextPart(<<"b">>)>>)}

RichRequests ==
  {[contents |-> ArrayContents(items)] :
     items \in UNION {[1..k -> Entries] : k \in 0..MaxContents}}
  \cup {[contents |-> ArrayContents(<<odd, entry>>)] : odd \in OddItems, entry \in Entries}
  \cup {[contents |-> ArrayContents(<<entry, odd>>)] : odd \in OddItems, entry \in Entries}
  \cup {[contents |-> SingleContents(item)] : item \in Entries \cup OddItems}

PromptNext ==
  \/ GenerateContent(1, RichRequests)
  \/ GenerateContentStream(1, RichRequests)
  \/ GenFirstNext(1)

PromptSpec == Init /\ [][PromptNext]_vars

\* the content entries of a request: the objects with a parts list
ContentEntries(request) ==
  SelectSeq(request.contents.items,
            LAMBDA item : item.type = "object" /\ "parts" \in item.keys /\ item.defined)

\* the texts of the text parts of the content entries, in order
RECURSIVE TextsOfParts(_)
TextsOfParts(parts) ==
  IF parts = <<>> THEN <<>>
  ELSE (IF "text" \in Head(parts).keys THEN <<Head(parts).text>> ELSE <<>>)
       \o TextsOfParts(Tail(parts))

RECURSIVE TextsOfEntries(_)
TextsOfEntries(entries) ==
  IF entries = <<>> THEN <<>>
  ELSE TextsOfParts(Head(entries).parts) \o TextsOfEntries(Tail(entries))

\* each text followed by one newline
RECURSIVE EachWithNewline(_)
EachWithNewline(texts) ==
  IF texts = <<>> THEN <<>>
  ELSE Head(texts) \o <<NL>> \o EachWithNewline(Tail(texts))

NonEmpty(text) == text # <<>>

\* C9 as stated: the prompt sent is the concatenation of all text parts, the
\* empty ones included, each followed by one newline, then trimmed.
C9_PromptEveryTextPart ==
  \A c \in Calls :
    \A i \in 1..Len(call[c].sent) :
      call[c].sent[i].prompt =
        trim(EachWithNewline(TextsOfEntries(ContentEntries(call[c].request))))

\* C9 as amended: the prompt sent is the concatenation of the non-empty text
\* parts, each followed by one newline, then trimmed; it is empty when the
\* request has no content entry or no text part.
C9_PromptNonEmptyTextParts ==
  \A c \in Calls :
    \A i \in 1..Len(call[c].sent) :
      /\ call[c].sent[i].prompt =
           trim(EachWithNewline(
                  SelectSeq(TextsOfEntries(ContentEntries(call[c].request)), NonEmpty)))
      /\ TextsOfEntries(ContentEntries(call[c].request)) = <<>>
           => call[c].sent[i].prompt = <<>>

\* two entries whose text parts are " a", "" and "b\n": the prompt is "a\nb"
C9_Witness ==
  /\ call[1].request =
       [contents |-> ArrayContents(
          <<ContentEntry(<<TextPart(<<" ", "a">>), TextPart(<<>>)>>),
            ContentEntry(<<TextPart(<<"b", NL>>)>>)>>)]
  /\ Len(call[1].sent) = 1
  /\ call[1].sent[1].prompt = <<"a", NL, "b">>
====
